---- MODULE Spec2Model ----
(***************************************************************************)
(* Model of src/browser_manager.py (BrowserManager): the CAPTCHA           *)
(* resolution routine resolveCaptcha, the frame scanner                    *)
(* _find_iframe_with_contained_class, the element lookup get, the          *)
(* transcription pipeline _audio_url_to_text and the timeout property.     *)
(*                                                                         *)
(* Strings the code inspects character by character (marker names, page    *)
(* sources, ban texts) are sequences of one-character strings, so that the *)
(* regular-expression search and the lower-casing are computed, not        *)
(* assumed.  The browser, the page and the external services are the       *)
(* environment: their answers are drawn with \E from small sets.           *)
(***************************************************************************)
EXTENDS Integers, Sequences, FiniteSets, TLC

---------------------------------------------------------------------------
(* Bounds of the model *)

\* iframes the top-level document holds at most
MaxFrames == 2
\* frames that go stale between enumeration and switch during one scan
MaxStale == 1
\* iterations of the audio loop explored
MaxRounds == 2
\* calls of resolveCaptcha on one session
MaxCalls == 2
\* iframes of a page the scanner is called on directly
MaxPageFrames == 3
\* nodes a clicked selector matches
MaxMatched == 2
\* characters of a selector string handed to _get_selector_type
MaxSelectorLen == 3
\* the largest number assigned to the timeout property
MaxTimeoutValue == 8
\* longest keyword_length a DictionaryManager is built with
MaxKeywordLength == 2
\* longest word given to init_from, and longest keyword that is extended to
MaxWordLen == 3
\* longest queue extend_current_keyword grows
MaxDictionaryLen == 6
\* most keywords handed out by one manager
MaxReturned == 5

---------------------------------------------------------------------------
(* Program constants *)

\* src/browser_manager.py:87
default_timeout == 30
\* src/browser_manager.py:384   self.timeout = 1
captcha_timeout == 1

\* src/browser_manager.py:397
reCaptcha_checkbox_class_name ==
    <<"r","e","c","a","p","t","c","h","a","-","c","h","e","c","k","b","o","x","-","u","n","c",
      "h","e","c","k","e","d">>

\* src/browser_manager.py:398
reCaptcha_audio_button_id_name ==
    <<"r","e","c","a","p","t","c","h","a","-","a","u","d","i","o","-","b","u","t","t","o","n">>

\* src/browser_manager.py:399
audio_file_link_class_name ==
    <<"r","c","-","a","u","d","i","o","c","h","a","l","l","e","n","g","e","-","t","d","o","w",
      "n","l","o","a","d","-","l","i","n","k">>

\* src/browser_manager.py:403
reCaptcha_audio_button_alt_selector ==
    <<"#","r","e","c","a","p","t","c","h","a","-","a","n","c","h","o","r">>

\* selectors are opaque to the model: what they match is given by ElementCount
reCaptcha_checkbox_selector == ".recaptcha-checkbox-unchecked"
reCaptcha_audio_button_selector == "#recaptcha-audio-button"
reCaptcha_audio_button_alt == "#recaptcha-anchor"
audio_file_link_selector == ".rc-audiochallenge-tdownload-link"
reCaptcha_modal_header_selector == ".rc-doscaptcha-header-text"
reCaptcha_answer_text_input_selector == "#audio-response"
iframe_selector == "iframe"

\* src/browser_manager.py:472   banned_phrases
\* "try again later"
banned_phrase_en ==
    <<"t","r","y"," ","a","g","a","i","n"," ","l","a","t","e","r">>

\* "vuelve a intentarlo"
banned_phrase_es ==
    <<"v","u","e","l","v","e"," ","a"," ","i","n","t","e","n","t","a","r","l","o">>

banned_phrases == {banned_phrase_en, banned_phrase_es}

\* src/browser_manager.py:497   Keys.ENTER
ENTER == "ENTER"
\* the value of a local variable that was not assigned yet
Unset == "<unset>"

---------------------------------------------------------------------------
(* The pages of the environment *)

\* a frame without any marker
SrcPlain ==
    <<"<","p",">","h","e","l","l","o","<","/","p",">">>

\* the checkbox frame
SrcAnchor ==
    <<"<","s","p","a","n"," ","c","l","a","s","s","=","'","r","e","c","a","p","t","c","h","a",
      "-","c","h","e","c","k","b","o","x","-","u","n","c","h","e","c","k","e","d","'"," ","i",
      "d","=","'","r","e","c","a","p","t","c","h","a","-","a","n","c","h","o","r","'",">">>

\* the challenge frame showing the audio button
SrcChallenge ==
    <<"<","b","u","t","t","o","n"," ","i","d","=","'","r","e","c","a","p","t","c","h","a","-",
      "a","u","d","i","o","-","b","u","t","t","o","n","'",">">>

\* the challenge frame in audio mode
SrcAudio ==
    <<"<","b","u","t","t","o","n"," ","i","d","=","'","r","e","c","a","p","t","c","h","a","-",
      "i","m","a","g","e","-","b","u","t","t","o","n","'",">","<","a"," ","c","l","a","s","s",
      "=","'","r","c","-","a","u","d","i","o","c","h","a","l","l","e","n","g","e","-","t","d",
      "o","w","n","l","o","a","d","-","l","i","n","k","'",">","<","i","n","p","u","t"," ","i",
      "d","=","'","a","u","d","i","o","-","r","e","s","p","o","n","s","e","'",">">>

\* a frame that names the audio-button marker only inside a longer id, the marker first
SrcLongerAfter ==
    <<"<","b","u","t","t","o","n"," ","i","d","=","'","r","e","c","a","p","t","c","h","a","-",
      "a","u","d","i","o","-","b","u","t","t","o","n","-","d","i","s","a","b","l","e","d","'",
      ">">>

\* the same, the marker last
SrcLongerBefore ==
    <<"<","d","i","v"," ","c","l","a","s","s","=","'","n","o","-","r","e","c","a","p","t","c",
      "h","a","-","a","u","d","i","o","-","b","u","t","t","o","n","'",">">>

\* the marker inside a longer word
SrcLongerWord ==
    <<"<","b","u","t","t","o","n"," ","i","d","=","'","r","e","c","a","p","t","c","h","a","-",
      "a","u","d","i","o","-","b","u","t","t","o","n","s","'",">">>

\* texts of the ban notice
TextBanEn ==
    <<"T","r","y"," ","a","g","a","i","n"," ","l","a","t","e","r">>

\* the localized notice, in capitals
TextBanEs ==
    <<"V","U","E","L","V","E"," ","A"," ","I","N","T","E","N","T","A","R","L","O">>

\* a header text that is no ban
TextOther ==
    <<"S","e","l","e","c","t"," ","a","l","l"," ","i","m","a","g","e","s">>


\* what a frame of the page can be: its rendered source and the elements in it
FrameKinds ==
    {"plain", "anchor", "anchor_gone", "challenge",
     "audio_u1", "audio_u2", "audio_nohref", "audio_nolink", "audio_noinput"}

\* frames whose source holds the audio-button marker only as a part of a
\* longer name
TokenKinds == {"longer_after", "longer_before", "longer_word"}

\* what the top-level document can hold besides its iframes
TopKinds == {"page", "ban_en", "ban_es", "ban_other"}

\* driver.page_source of a frame
page_source(kind) ==
    CASE kind = "plain" -> SrcPlain
      [] kind \in {"anchor", "anchor_gone"} -> SrcAnchor
      [] kind = "challenge" -> SrcChallenge
      [] kind = "longer_after" -> SrcLongerAfter
      [] kind = "longer_before" -> SrcLongerBefore
      [] kind = "longer_word" -> SrcLongerWord
      [] OTHER -> SrcAudio

\* number of nodes of a document that a selector matches (iframes apart).
\* "anchor_gone" and "audio_nolink" name the marker in their source while the
\* node itself cannot be located.
ElementCount(kind, selector) ==
    CASE kind = "anchor" /\ selector \in {reCaptcha_checkbox_selector, reCaptcha_audio_button_alt} -> 1
      [] kind = "challenge" /\ selector = reCaptcha_audio_button_selector -> 1
      [] kind \in {"audio_u1", "audio_u2", "audio_nohref", "audio_noinput"}
           /\ selector = audio_file_link_selector -> 1
      [] kind \in {"audio_u1", "audio_u2", "audio_nohref", "audio_nolink"}
           /\ selector = reCaptcha_answer_text_input_selector -> 1
      [] kind \in {"ban_en", "ban_es", "ban_other"}
           /\ selector = reCaptcha_modal_header_selector -> 1
      [] OTHER -> 0

\* get_attribute('href') of the audio link of a frame; "none" is Python's None
Href(kind) ==
    CASE kind \in {"audio_u1", "audio_noinput"} -> "u1"
      [] kind = "audio_u2" -> "u2"
      [] OTHER -> "none"

\* .text of the ban notice of a top-level document
ElementText(kind) ==
    CASE kind = "ban_en" -> TextBanEn
      [] kind = "ban_es" -> TextBanEs
      [] OTHER -> TextOther

\* what the recognition service can hear
Texts == {"banana apple", "seven"}

---------------------------------------------------------------------------
(* Strings *)

UpperCase ==
    <<"A","B","C","D","E","F","G","H","I","J","K","L","M",
      "N","O","P","Q","R","S","T","U","V","W","X","Y","Z">>
LowerCase ==
    <<"a","b","c","d","e","f","g","h","i","j","k","l","m",
      "n","o","p","q","r","s","t","u","v","w","x","y","z">>
Digits == {"0","1","2","3","4","5","6","7","8","9"}

\* the characters \w matches
WordChars == {LowerCase[i] : i \in 1..26} \cup {UpperCase[i] : i \in 1..26} \cup Digits \cup {"_"}

\* str.lower()
lower(s) ==
    [k \in 1..Len(s) |->
        IF \E i \in 1..26 : UpperCase[i] = s[k]
        THEN LowerCase[CHOOSE i \in 1..26 : UpperCase[i] = s[k]]
        ELSE s[k]]

\* phrase in s
Contains(s, phrase) ==
    \E i \in 1..(Len(s) - Len(phrase) + 1) : SubSeq(s, i, i + Len(phrase) - 1) = phrase

IsWordAt(src, i) == i >= 1 /\ i <= Len(src) /\ src[i] \in WordChars

\* \b between the characters i-1 and i of src
WordBoundary(src, i) == IsWordAt(src, i - 1) # IsWordAt(src, i)

\* re.compile(r'\b(' + '|'.join(class_names) + r')\b').search(src): the names hold
\* no regular-expression operator, so each alternative is matched literally
regex_search(class_names, src) ==
    \E name \in class_names : \E i \in 1..Len(src) :
        /\ i + Len(name) - 1 <= Len(src)
        /\ SubSeq(src, i, i + Len(name) - 1) = name
        /\ WordBoundary(src, i)
        /\ WordBoundary(src, i + Len(name))

\* the marker lists resolveCaptcha scans for
MarkerSets ==
    {{reCaptcha_checkbox_class_name},
     {reCaptcha_audio_button_id_name, reCaptcha_audio_button_alt_selector},
     {audio_file_link_class_name}}

\* regex_class_pattern.search(page_source) per marker list and frame kind
has_a_match ==
    [class_names \in MarkerSets |->
        [kind \in FrameKinds \cup TokenKinds |->
            regex_search(class_names, page_source(kind))]]

\* the comparison without the lower-casing
are_we_banned_case_sensitive(text) == \E phrase \in banned_phrases : Contains(text, phrase)

\* any(phrase in text.lower() for phrase in banned_phrases)
are_we_banned(text) == \E phrase \in banned_phrases : Contains(lower(text), phrase)

---------------------------------------------------------------------------
(* State *)

VARIABLES
    pc,                        \* where the call of resolveCaptcha stands
    result,                    \* what the call returned: "True", "False", "None"; "pending" before
    raised,                    \* the exception that left the call, "" when none
    calls,                     \* calls of resolveCaptcha made on this session
    frames,                    \* the iframes of the top-level document, in document order
    top,                       \* the top-level document
    ctx,                       \* current document context: 0 top-level, i inside frames[i]
    timeout,                   \* self._timeout
    wait,                      \* ceiling of self._wait
    original_timeout_value,    \* locals of resolveCaptcha
    reCaptcha_checkbox_triggered,
    iframe_audio_link,         \* scanner results: a frame index, 0 for None
    iframe_audio,
    captcha_audio_link_url,
    audio_text_recognized,
    rounds,                    \* iterations of the audio loop started in this call
    typed,                     \* keys sent to the answer input in the current round
    files,                     \* temporary artifacts of the last pipeline run that exist
    transcriptions,            \* pipeline runs of the current round
    pre_timeout,               \* the session timeout when the call was made
    before_first_call,         \* the session's timeout and context when it was built
    checkbox_phase,            \* lines 409-423: whether the checkbox frame was found, and
                               \* the click and the settle delay that followed, in order
    op,                        \* the last operation called, with its outcome
    keyword_length,            \* DictionaryManager: the constructor's argument, 0 when none is built
    dictionary,                \* self._dictionary, the queue of keywords
    current_keyword,           \* self._current_keyword
    keywords_returned          \* what get_next_keyword returned so far, in order

vars ==
    <<pc, result, raised, calls, frames, top, ctx, timeout, wait, original_timeout_value,
      reCaptcha_checkbox_triggered, iframe_audio_link, iframe_audio, captcha_audio_link_url, audio_text_recognized,
      rounds, typed, files, transcriptions, pre_timeout, before_first_call, checkbox_phase, op,
      keyword_length, dictionary, current_keyword, keywords_returned>>

dictionary_state == <<keyword_length, dictionary, current_keyword, keywords_returned>>

\* self._current_keyword before the first keyword is handed out
None == <<"None">>

locals ==
    <<original_timeout_value, reCaptcha_checkbox_triggered, iframe_audio_link, iframe_audio, captcha_audio_link_url,
      audio_text_recognized, rounds, typed, transcriptions, pre_timeout>>

\* config["timeout"] values the sessions are built with (an int, by the constructor's contract)
ConfigTimeouts == {captcha_timeout, default_timeout}

Versions == {"google-v2", "cloudflare"}

\* a value handed to the timeout setter, with its Python type
IntValue(n) == [type |-> "int", v |-> n]

Pages == UNION {[1..n -> FrameKinds] : n \in 0..MaxFrames}

\* the frames a scan finds stale when it switches into them
StaleSets == {s \in SUBSET (1..Len(frames)) : Cardinality(s) <= MaxStale}

RemoveAt(s, i) == SubSeq(s, 1, i - 1) \o SubSeq(s, i + 1, Len(s))

\* what the iframes may have become after a click or a submitted answer, once
\* the settle delay is over: one frame changed, attached or detached
Reactions ==
    {frames}
    \cup {[frames EXCEPT ![i] = k] : i \in 1..Len(frames), k \in FrameKinds}
    \cup {Append(frames, k) : k \in IF Len(frames) < MaxFrames THEN FrameKinds ELSE {}}
    \cup {RemoveAt(frames, i) : i \in 1..Len(frames)}

---------------------------------------------------------------------------
(* BrowserManager.timeout *)

\* a setter that keeps the wait object it had
timeout_setter_keeping_wait(value) ==
    IF value.type = "int"
    THEN [raised |-> "", timeout |-> value.v, wait |-> wait]
    ELSE [raised |-> "ValueError", timeout |-> timeout, wait |-> wait]

\* the setter: a record of what it leaves behind
timeout_setter(value) ==
    IF value.type = "int"
    THEN [raised |-> "", timeout |-> value.v, wait |-> value.v]
    ELSE [raised |-> "ValueError", timeout |-> timeout, wait |-> wait]

---------------------------------------------------------------------------
(* BrowserManager.get *)

\* len(elements) for a selector in document context c
total_matched(c, selector) ==
    IF c = 0
    THEN IF selector = iframe_selector THEN Len(frames) ELSE ElementCount(top, selector)
    ELSE ElementCount(frames[c], selector)

\* what get returns for total_matched nodes: one element, the list, None (the
\* function falls off its end), or TimeoutException when nothing matches
elements_located(total, results_in_list) ==
    CASE total = 0 -> [kind |-> "TimeoutException", n |-> 0]
      [] total = 1 /\ ~results_in_list -> [kind |-> "WebElement", n |-> 1]
      [] total > 1 -> [kind |-> "list", n |-> total]
      [] OTHER -> [kind |-> "None", n |-> total]

\* get in document context c
get(c, selector, results_in_list) ==
    elements_located(total_matched(c, selector), results_in_list)

---------------------------------------------------------------------------
(* BrowserManager._find_iframe_with_contained_class *)

\* a scanner that takes every switch for done
never_skipped(stale, i) == FALSE

\* lines 543-547: the switch into candidate i raised and the candidate is
\* passed over
skipped(stale, i) == i \in stale

\* the candidates taken oldest first
RECURSIVE scan_iframes_in_document_order(_, _, _)
scan_iframes_in_document_order(class_names, stale, i) ==
    LET j == Len(frames) - i + 1 IN
    IF i = 0 THEN 0
    ELSE IF j \in stale THEN scan_iframes_in_document_order(class_names, stale, i - 1)
    ELSE IF has_a_match[class_names][frames[j]] THEN j
    ELSE scan_iframes_in_document_order(class_names, stale, i - 1)

\* the loop over reversed(iframes_list), i being the next candidate: a frame
\* that cannot be switched into is skipped, the first match is returned
RECURSIVE scan_iframes(_, _, _)
scan_iframes(class_names, stale, i) ==
    IF i = 0 THEN 0
    ELSE IF skipped(stale, i) THEN scan_iframes(class_names, stale, i - 1)
    ELSE IF has_a_match[class_names][frames[i]] THEN i
    ELSE scan_iframes(class_names, stale, i - 1)

\* a scanner that stays in the frame it found
context_inside_match(current_iframe) == current_iframe

\* lines 551-553: switch_to.default_content() before the frame found is
\* returned (and line 558 when none is)
context_after_match(current_iframe) == 0

\* the frame found (0 for None), the context the session is left in, and
\* the exception that leaves the scanner: reversed(None) is a TypeError
find_iframe_with_contained_class(class_names, stale) ==
    LET iframes_list == get(0, iframe_selector, TRUE)
        current_iframe == scan_iframes(class_names, stale, Len(frames))
    IN
    CASE iframes_list.kind = "TimeoutException" -> [raised |-> "", frame |-> 0, ctx |-> 0]
      [] iframes_list.kind = "None" -> [raised |-> "TypeError", frame |-> 0, ctx |-> 0]
      [] OTHER ->
            [raised |-> "", frame |-> current_iframe,
             ctx |-> IF current_iframe = 0 THEN 0 ELSE context_after_match(current_iframe)]

---------------------------------------------------------------------------
(* BrowserManager._audio_url_to_text *)

\* where the pipeline's environment fails
Failures ==
    {"none", "download", "write", "ffmpeg_missing", "ffmpeg_failed", "record", "recognize"}

\* a cleanup that forgets the transcoded file
remove_download_only(existing) == existing \ {"mp3"}

\* os.remove of both artifacts, an OSError (no such file) swallowed
remove_artifacts(existing) == (existing \ {"mp3"}) \ {"wav"}

\* the text returned or the exception raised, and the artifacts left under
\* this run's file_name.  Nothing is removed when a step raises: the removals
\* are the last statements of the function, outside any try/finally.
audio_url_to_text(fail, heard) ==
    LET downloaded == {"mp3"}
        converted == IF fail = "ffmpeg_failed" THEN downloaded ELSE downloaded \cup {"wav"}
    IN
    IF fail = "download"
    THEN [raised |-> "ConnectionError", text |-> Unset, files |-> {}]
    ELSE IF fail = "write"
    THEN [raised |-> "ConnectionError", text |-> Unset, files |-> downloaded]
    ELSE IF fail = "ffmpeg_missing"
    THEN [raised |-> "FileNotFoundError", text |-> Unset, files |-> downloaded]
    ELSE IF "wav" \notin converted
    THEN [raised |-> "FileNotFoundError", text |-> Unset, files |-> converted]
    ELSE IF fail = "record"
    THEN [raised |-> "ValueError", text |-> Unset, files |-> converted]
    ELSE [raised |-> "",
          text |-> IF fail = "recognize" THEN "" ELSE heard,
          files |-> remove_artifacts(converted)]

---------------------------------------------------------------------------
(* BrowserManager.resolveCaptcha *)

\* a return that leaves the override in place
return_without_restore(value) ==
    /\ pc' = "done"
    /\ raised' = ""
    /\ result' = value
    /\ UNCHANGED <<timeout, wait>>

\* self.timeout = original_timeout_value; return value
restore_and_return(value) ==
    LET set == timeout_setter(IntValue(original_timeout_value)) IN
    /\ timeout' = set.timeout
    /\ wait' = set.wait
    /\ pc' = "done"
    /\ raised' = set.raised
    /\ result' = IF set.raised = "" THEN value ELSE "pending"

\* an exception leaves resolveCaptcha: nothing is restored
raise(exception) ==
    /\ pc' = "done"
    /\ raised' = exception
    /\ result' = "pending"
    /\ UNCHANGED <<timeout, wait>>

goto(label) ==
    /\ pc' = label
    /\ UNCHANGED <<result, raised, timeout, wait>>

\* lines 382-388: the override of the timeout and the test of the variant
resolveCaptcha(captcha_version) ==
    LET set == timeout_setter(IntValue(captcha_timeout)) IN
    /\ pc = "idle"
    /\ calls < MaxCalls
    /\ calls' = calls + 1
    /\ pre_timeout' = timeout
    /\ original_timeout_value' = timeout
    /\ timeout' = set.timeout
    /\ wait' = set.wait
    /\ raised' = ""
    /\ op' = [name |-> "resolveCaptcha", captcha_version |-> captcha_version]
    /\ IF captcha_version = "google-v2"
       THEN pc' = "CheckboxSearch" /\ result' = "pending"
       ELSE pc' = "done" /\ result' = "None"
    /\ UNCHANGED <<frames, top, ctx, files, reCaptcha_checkbox_triggered,
                   iframe_audio_link, iframe_audio, captcha_audio_link_url,
                   audio_text_recognized, rounds, typed, transcriptions,
                   before_first_call, dictionary_state, checkbox_phase>>

\* a call that goes on to the scan at once
settle_delay_skipped(triggered) == 0

\* lines 421-423: the seconds slept before the challenge scan
settle_delay(triggered) == IF triggered THEN 1 ELSE 0

\* what the checkbox phase did once it is over: the click, when it succeeded,
\* then the sleep
checkbox_steps(triggered) ==
    (IF triggered THEN <<"click">> ELSE <<>>)
        \o (IF settle_delay(triggered) > 0 THEN <<"sleep">> ELSE <<>>)

\* lines 409-424: the checkbox frame is looked for and its checkbox clicked
CheckboxSearch ==
    /\ pc = "CheckboxSearch"
    /\ \E stale \in StaleSets :
        LET found == find_iframe_with_contained_class({reCaptcha_checkbox_class_name}, stale)
            check_trigger == get(found.frame, reCaptcha_checkbox_selector, FALSE)
            fails(exception, context) ==
                /\ raise(exception)
                /\ ctx' = context
                /\ checkbox_phase' = [found |-> found.frame # 0, steps |-> <<>>]
                /\ UNCHANGED <<frames, reCaptcha_checkbox_triggered>>
        IN
        CASE found.raised # "" -> fails(found.raised, found.ctx)
          [] found.raised = "" /\ found.frame = 0 ->
                /\ goto("ChallengeSearch")
                /\ ctx' = found.ctx
                /\ checkbox_phase' = [found |-> FALSE, steps |-> checkbox_steps(FALSE)]
                /\ UNCHANGED <<frames, reCaptcha_checkbox_triggered>>
          [] OTHER ->
                \E switch_ok \in BOOLEAN :
                    IF ~switch_ok
                    THEN fails("NoSuchFrameException", found.ctx)
                    ELSE IF check_trigger.kind = "TimeoutException"
                    THEN fails("TimeoutException", found.frame)
                    ELSE IF check_trigger.kind = "list"
                    THEN fails("AttributeError", found.frame)
                    ELSE \E click_ok \in BOOLEAN :
                        IF ~click_ok
                        THEN fails("ElementClickInterceptedException", found.frame)
                        ELSE /\ goto("ChallengeSearch")
                             /\ ctx' = found.frame
                             /\ reCaptcha_checkbox_triggered' = TRUE
                             /\ checkbox_phase' = [found |-> TRUE, steps |-> checkbox_steps(TRUE)]
                             /\ frames' \in Reactions
    /\ UNCHANGED <<calls, before_first_call, dictionary_state, op, top, files, original_timeout_value,
                   iframe_audio_link, iframe_audio, captcha_audio_link_url,
                   audio_text_recognized, rounds, typed, transcriptions, pre_timeout>>

\* lines 426-455: the challenge frame is looked for and its audio control
\* clicked; whatever fails after the frame was found is logged and passed
\* over
ChallengeSearch ==
    /\ pc = "ChallengeSearch"
    /\ \E stale \in StaleSets :
        LET found == find_iframe_with_contained_class(
                         {reCaptcha_audio_button_id_name, reCaptcha_audio_button_alt_selector},
                         stale)
            primary == get(found.frame, reCaptcha_audio_button_selector, FALSE)
            audio_btn == IF primary.kind = "TimeoutException"
                         THEN get(found.frame, reCaptcha_audio_button_alt, FALSE)
                         ELSE primary
        IN
        CASE found.raised # "" ->
                /\ raise(found.raised)
                /\ ctx' = found.ctx
                /\ UNCHANGED frames
          [] found.raised = "" /\ found.frame = 0 ->
                /\ restore_and_return("True")
                /\ ctx' = found.ctx
                /\ UNCHANGED frames
          [] OTHER ->
                /\ goto("AudioRound")
                /\ \E switch_ok \in BOOLEAN :
                    IF ~switch_ok
                    THEN ctx' = found.ctx /\ UNCHANGED frames
                    ELSE /\ ctx' = found.frame
                         /\ IF audio_btn.kind # "WebElement"
                            THEN UNCHANGED frames
                            ELSE \E click_ok \in BOOLEAN :
                                IF ~click_ok
                                THEN UNCHANGED frames
                                ELSE frames' \in Reactions
    /\ UNCHANGED <<calls, before_first_call, dictionary_state, checkbox_phase, op, top, files, original_timeout_value, reCaptcha_checkbox_triggered,
                   iframe_audio_link, iframe_audio, captcha_audio_link_url,
                   audio_text_recognized, rounds, typed, transcriptions, pre_timeout>>

\* line 470 returns True instead
no_ban_notice_outcome_solved == "True"

\* lines 468-470: what the call returns when no ban notice is located
no_ban_notice_outcome == "False"

\* the submit key sent before the text
keys_sent_enter_first(text) == <<ENTER, text>>

\* lines 496-497: the keys the answer input receives
keys_sent(text) == <<text, ENTER>>

\* line 481: the href of the audio link of a frame, None unless get
\* returned a single element
captcha_audio_link_url_of(frame) ==
    IF get(frame, audio_file_link_selector, FALSE).kind = "WebElement"
    THEN Href(frames[frame])
    ELSE "none"

\* lines 479-486: the switch into iframe_audio_link and the lookup of the audio
\* url.  switch_to.frame(None) selects the top-level document, where the
\* model's pages hold no audio link.
look_up_audio_link(frame) ==
    LET captcha_audio_link == get(frame, audio_file_link_selector, FALSE)
        url == captcha_audio_link_url_of(frame)
    IN
    \E switch_ok \in BOOLEAN :
        IF ~switch_ok
        THEN /\ raise("NoSuchFrameException")
             /\ ctx' = 0
             /\ UNCHANGED captcha_audio_link_url
        ELSE IF captcha_audio_link.kind = "TimeoutException"
        THEN /\ raise("TimeoutException")
             /\ ctx' = frame
             /\ UNCHANGED captcha_audio_link_url
        ELSE IF url = "none"
        THEN /\ restore_and_return("False")
             /\ ctx' = frame
             /\ captcha_audio_link_url' = url
        ELSE /\ goto("Transcribe")
             /\ ctx' = frame
             /\ captcha_audio_link_url' = url

\* lines 462-486: the head of the audio loop.  The ban notice is looked up in
\* the context the scanner leaves; top' is the top-level document as it is
\* at that lookup.  With iframe_audio_link None and no ban detected the code
\* goes on to line 479.
AudioRound ==
    /\ pc = "AudioRound"
    /\ rounds' = rounds + 1
    /\ typed' = <<>>
    /\ transcriptions' = 0
    /\ \E stale \in StaleSets :
        LET found == find_iframe_with_contained_class({audio_file_link_class_name}, stale) IN
        /\ iframe_audio_link' = found.frame
        /\ CASE found.raised # "" ->
                  /\ raise(found.raised)
                  /\ ctx' = found.ctx
                  /\ UNCHANGED <<captcha_audio_link_url, top>>
             [] found.raised = "" /\ found.frame = 0 ->
                  \E notice \in TopKinds :
                      LET ban_notification ==
                              elements_located(
                                  ElementCount(notice, reCaptcha_modal_header_selector), FALSE)
                      IN
                      /\ top' = notice
                      /\ IF ban_notification.kind = "TimeoutException"
                         THEN /\ restore_and_return(no_ban_notice_outcome)
                              /\ ctx' = found.ctx
                              /\ UNCHANGED captcha_audio_link_url
                         ELSE IF ban_notification.kind = "WebElement"
                                 /\ are_we_banned(ElementText(notice))
                         THEN /\ restore_and_return("False")
                              /\ ctx' = found.ctx
                              /\ UNCHANGED captcha_audio_link_url
                         ELSE look_up_audio_link(found.frame)
             [] OTHER ->
                  /\ look_up_audio_link(found.frame)
                  /\ UNCHANGED top
    /\ UNCHANGED <<calls, before_first_call, dictionary_state, checkbox_phase, op, frames, files, original_timeout_value,
                   reCaptcha_checkbox_triggered, iframe_audio, audio_text_recognized,
                   pre_timeout>>

\* line 488: the pipeline runs on the url, under a fresh file_name
Transcribe ==
    /\ pc = "Transcribe"
    /\ transcriptions' = transcriptions + 1
    /\ \E fail \in Failures, heard \in Texts :
        LET run == audio_url_to_text(fail, heard) IN
        /\ files' = run.files
        /\ IF run.raised # ""
           THEN raise(run.raised) /\ UNCHANGED audio_text_recognized
           ELSE goto("SubmitAnswer") /\ audio_text_recognized' = run.text
    /\ UNCHANGED <<calls, before_first_call, dictionary_state, checkbox_phase, op, frames, top, ctx, original_timeout_value,
                   reCaptcha_checkbox_triggered, iframe_audio_link, iframe_audio,
                   captcha_audio_link_url, rounds, typed, pre_timeout>>

\* a test that lets every text through
any_text_accepted(text) == FALSE

\* line 490: `audio_text_recognized == ""`
no_text_recognized(text) == text = ""

\* lines 490-501: an empty text ends the call; otherwise the text and the
\* submit key are sent to the answer input and the settle delay is waited
SubmitAnswer ==
    LET answer_text_input == get(ctx, reCaptcha_answer_text_input_selector, FALSE) IN
    /\ pc = "SubmitAnswer"
    /\ CASE no_text_recognized(audio_text_recognized) ->
              /\ restore_and_return("False")
              /\ UNCHANGED <<typed, frames>>
         [] ~no_text_recognized(audio_text_recognized) /\ answer_text_input.kind = "TimeoutException" ->
              /\ raise("TimeoutException")
              /\ UNCHANGED <<typed, frames>>
         [] ~no_text_recognized(audio_text_recognized) /\ answer_text_input.kind = "list" ->
              /\ raise("AttributeError")
              /\ UNCHANGED <<typed, frames>>
         [] OTHER ->
              /\ goto("Rescan")
              /\ typed' = typed \o keys_sent(audio_text_recognized)
              /\ frames' \in Reactions
    /\ UNCHANGED <<calls, before_first_call, dictionary_state, checkbox_phase, op, top, ctx, files, original_timeout_value,
                   reCaptcha_checkbox_triggered, iframe_audio_link, iframe_audio,
                   captcha_audio_link_url, audio_text_recognized, rounds, transcriptions,
                   pre_timeout>>

\* lines 504-514: the scan after the answer; a frame found starts the next
\* iteration, none ends the loop and the call returns True
Rescan ==
    /\ pc = "Rescan"
    /\ \E stale \in StaleSets :
        LET found == find_iframe_with_contained_class({audio_file_link_class_name}, stale) IN
        /\ iframe_audio' = found.frame
        /\ CASE found.raised # "" ->
                  /\ raise(found.raised)
                  /\ ctx' = found.ctx
             [] found.raised = "" /\ found.frame = 0 ->
                  /\ restore_and_return("True")
                  /\ ctx' = 0
             [] OTHER ->
                  \E switch_ok \in BOOLEAN :
                      IF ~switch_ok
                      THEN raise("NoSuchFrameException") /\ ctx' = found.ctx
                      ELSE /\ rounds < MaxRounds
                           /\ goto("AudioRound")
                           /\ ctx' = found.frame
    /\ UNCHANGED <<calls, before_first_call, dictionary_state, checkbox_phase, op, frames, top, files, original_timeout_value,
                   reCaptcha_checkbox_triggered, iframe_audio_link, captcha_audio_link_url,
                   audio_text_recognized, rounds, typed, transcriptions, pre_timeout>>

---------------------------------------------------------------------------
(* The specification *)

\* a session just built, on one of the pages given
Built(pages) ==
    /\ pc = "idle"
    /\ result = "pending"
    /\ raised = ""
    /\ calls = 0
    /\ frames \in pages
    /\ top = "page"
    /\ ctx = 0
    /\ timeout \in ConfigTimeouts
    /\ wait = timeout
    /\ original_timeout_value = timeout
    /\ pre_timeout = timeout
    /\ reCaptcha_checkbox_triggered = FALSE
    /\ iframe_audio_link = 0
    /\ iframe_audio = 0
    /\ captcha_audio_link_url = "none"
    /\ audio_text_recognized = Unset
    /\ rounds = 0
    /\ typed = <<>>
    /\ files = {}
    /\ transcriptions = 0
    /\ before_first_call = [timeout |-> timeout, ctx |-> ctx]
    /\ checkbox_phase = [found |-> FALSE, steps |-> <<>>]
    /\ op = [name |-> "none"]
    /\ keyword_length = 0
    /\ dictionary = <<>>
    /\ current_keyword = None
    /\ keywords_returned = <<>>

Init == Built(Pages)

Next ==
    \/ \E captcha_version \in Versions : resolveCaptcha(captcha_version)
    \/ CheckboxSearch
    \/ ChallengeSearch
    \/ AudioRound
    \/ Transcribe
    \/ SubmitAnswer
    \/ Rescan

Spec == Init /\ [][Next]_vars


---------------------------------------------------------------------------
(* Two calls on one session *)

\* the caller, told True, calls resolveCaptcha again on the session as the
\* first call left it: the locals of the earlier call are gone
NextCall ==
    /\ pc = "done"
    /\ raised = ""
    /\ result = "True"
    /\ calls < MaxCalls
    /\ pc' = "idle"
    /\ result' = "pending"
    /\ top' = "page"
    /\ original_timeout_value' = timeout
    /\ pre_timeout' = timeout
    /\ reCaptcha_checkbox_triggered' = FALSE
    /\ iframe_audio_link' = 0
    /\ iframe_audio' = 0
    /\ captcha_audio_link_url' = "none"
    /\ audio_text_recognized' = Unset
    /\ rounds' = 0
    /\ typed' = <<>>
    /\ transcriptions' = 0
    /\ checkbox_phase' = [found |-> FALSE, steps |-> <<>>]
    /\ UNCHANGED <<raised, calls, frames, ctx, timeout, wait, files, before_first_call, dictionary_state, op>>

NextCalls ==
    \/ Next
    \/ NextCall

SpecCalls == Init /\ [][NextCalls]_vars

---------------------------------------------------------------------------
(* The element-level operations, called directly on a session *)

\* what resolveCaptcha keeps, untouched by the other operations
captcha_state ==
    <<pc, calls, top, original_timeout_value, reCaptcha_checkbox_triggered,
      iframe_audio_link, iframe_audio, captcha_audio_link_url, audio_text_recognized,
      rounds, typed, files, transcriptions, before_first_call, checkbox_phase, dictionary_state>>

ScanKinds == {"plain", "challenge", "audio_u1"}

ScanPages == UNION {[1..n -> ScanKinds] : n \in 0..MaxPageFrames}

\* the optional timeout argument: None, or a value with its Python type
NoneValue == [type |-> "NoneType", v |-> 0]

FloatValue(n) == [type |-> "float", v |-> n]

Overrides == {NoneValue, IntValue(0), IntValue(5), FloatValue(2)}

\* `if timeout:`
truthy(value) == value.type # "NoneType" /\ value.v # 0

\* seconds after the call at which the element shows (or is gone); 40 is
\* beyond every ceiling
EventTimes == {3, 20, 40}

\* what the wait may raise besides TimeoutException
WaitFailures == {"", "WebDriverException"}

\* the caller moves the session into a frame, or back to the top (0)
switch_to_frame ==
    /\ pc = "idle"
    /\ \E i \in 0..Len(frames) :
        /\ ctx' = i
        /\ op' = [name |-> "switch_to.frame", frame |-> i]
    /\ result' = "None"
    /\ raised' = ""
    /\ pre_timeout' = timeout
    /\ UNCHANGED <<timeout, wait, frames, captcha_state>>

\* _find_iframe_with_contained_class(class_names) called on the page
call_find_iframe ==
    /\ pc = "idle"
    /\ \E class_names \in MarkerSets, stale \in StaleSets :
        LET found == find_iframe_with_contained_class(class_names, stale) IN
        /\ op' = [name |-> "_find_iframe_with_contained_class",
                  class_names |-> class_names, stale |-> stale, frame |-> found.frame]
        /\ raised' = found.raised
        /\ result' = IF found.raised # "" THEN "pending"
                     ELSE IF found.frame = 0 THEN "None" ELSE "WebElement"
        /\ ctx' = found.ctx
    /\ pre_timeout' = timeout
    /\ UNCHANGED <<timeout, wait, frames, captcha_state>>

\* get(selector, results_in_list) called in the current context
call_get ==
    /\ pc = "idle"
    /\ \E selector \in {iframe_selector, audio_file_link_selector}, results_in_list \in BOOLEAN :
        LET elements == get(ctx, selector, results_in_list) IN
        /\ op' = [name |-> "get", total_matched |-> total_matched(ctx, selector),
                  results_in_list |-> results_in_list, returned |-> elements.n]
        /\ raised' = IF elements.kind = "TimeoutException" THEN "TimeoutException" ELSE ""
        /\ result' = IF elements.kind = "TimeoutException" THEN "pending" ELSE elements.kind
    /\ pre_timeout' = timeout
    /\ UNCHANGED <<timeout, wait, ctx, frames, captcha_state>>

\* line 199: `except TimeoutException or ElementClickInterceptedException`
\* names the value of the `or` expression, which is its first operand
click_element_handled == {"TimeoutException"}

\* line 185: the only exception the selector branch handles
click_selector_handled == {"ElementClickInterceptedException"}

\* lines 164-200: click(element_or_selector).  total nodes match the selector
\* (one node is the element handed in); ready says whether the wait of line
\* 181 or 197 succeeds, intercepted whether something covers the element
click ==
    /\ pc = "idle"
    /\ \E target \in {"selector", "element"}, total \in 0..MaxMatched,
          ready \in BOOLEAN, intercepted \in BOOLEAN :
        LET thrown == IF ~ready \/ total = 0 THEN "TimeoutException"
                      ELSE IF intercepted THEN "ElementClickInterceptedException"
                      ELSE ""
            element == elements_located(total, FALSE)
            done(natural, script, exception) ==
                /\ op' = [name |-> "click", target |-> target, total_matched |-> total,
                          thrown |-> thrown, natural_click |-> natural,
                          script_click |-> script]
                /\ raised' = exception
                /\ result' = IF exception = "" THEN "None" ELSE "pending"
        IN
        /\ target = "element" => total = 1
        /\ IF thrown = ""
           THEN done(TRUE, FALSE, "")
           ELSE IF target = "selector"
           THEN IF thrown \notin click_selector_handled
                THEN done(FALSE, FALSE, thrown)
                ELSE IF element.kind = "WebElement"
                THEN done(FALSE, TRUE, "")
                ELSE done(FALSE, FALSE, "TypeError")
           ELSE IF thrown \in click_element_handled
                THEN done(FALSE, TRUE, "")
                ELSE done(FALSE, FALSE, thrown)
    /\ pre_timeout' = timeout
    /\ UNCHANGED <<timeout, wait, ctx, frames, captcha_state>>

\* `is_displayed() and is_enabled()` alone
is_displayed_only(displayed, enabled) == displayed

\* line 337
is_interactable(displayed, enabled) == displayed /\ enabled

\* lines 319-341: is_element_interactable(selector, timeout).  The element is
\* visible from shows_at on; displayed and enabled are what the element
\* answers once the wait has returned it (FALSE when it is never asked)
is_element_interactable ==
    /\ pc = "idle"
    /\ \E override \in Overrides, shows_at \in EventTimes, displayed \in BOOLEAN,
          enabled \in BOOLEAN, failure \in WaitFailures :
        LET original_timeout == timeout
            set == IF truthy(override) THEN timeout_setter(override)
                   ELSE [raised |-> "", timeout |-> timeout, wait |-> wait]
            restored == [raised |-> "", timeout |-> original_timeout,
                         wait |-> original_timeout]
            outcome == IF failure # "" THEN [raised |-> failure, value |-> "pending"]
                       ELSE IF shows_at <= set.wait
                       THEN [raised |-> "",
                             value |-> IF is_interactable(displayed, enabled)
                                       THEN "True" ELSE "False"]
                       ELSE [raised |-> "", value |-> "False"]
        IN
        /\ (set.raised # "" \/ failure # "") => shows_at = 40
        /\ shows_at > set.wait => (~displayed /\ ~enabled)
        /\ op' = [name |-> "is_element_interactable", timeout |-> override,
                  shows_at |-> shows_at, displayed |-> displayed, enabled |-> enabled,
                  failure |-> failure]
        /\ IF set.raised # ""
           THEN /\ raised' = set.raised
                /\ result' = "pending"
                /\ UNCHANGED <<timeout, wait>>
           ELSE /\ raised' = outcome.raised
                /\ result' = outcome.value
                /\ timeout' = restored.timeout
                /\ wait' = restored.wait
    /\ pre_timeout' = timeout
    /\ UNCHANGED <<ctx, frames, captcha_state>>

\* lines 343-367: wait_until_element_has_gone(selector, timeout).  No node
\* matches the selector from gone_at on
wait_until_element_has_gone ==
    /\ pc = "idle"
    /\ \E override \in Overrides, gone_at \in EventTimes, failure \in WaitFailures :
        LET original_timeout == timeout
            set == IF truthy(override) THEN timeout_setter(override)
                   ELSE [raised |-> "", timeout |-> timeout, wait |-> wait]
        IN
        /\ (set.raised # "" \/ failure # "") => gone_at = 40
        /\ op' = [name |-> "wait_until_element_has_gone", timeout |-> override,
                  gone_at |-> gone_at, failure |-> failure]
        /\ IF set.raised # ""
           THEN /\ raised' = set.raised
                /\ UNCHANGED <<timeout, wait>>
           ELSE IF failure # ""
           THEN /\ raised' = failure
                /\ timeout' = set.timeout
                /\ wait' = set.wait
           ELSE /\ raised' = IF gone_at <= set.wait THEN "" ELSE "TimeoutException"
                /\ timeout' = original_timeout
                /\ wait' = original_timeout
        /\ result' = IF raised' = "" THEN "None" ELSE "pending"
    /\ pre_timeout' = timeout
    /\ UNCHANGED <<ctx, frames, captcha_state>>

\* selenium.common.exceptions: ElementNotInteractableException derives from
\* InvalidElementStateException
is_instance(exception, class) ==
    \/ exception = class
    \/ exception = "ElementNotInteractableException" /\ class = "InvalidElementStateException"

\* the except clauses the other way round
fill_handlers_reversed ==
    <<[catches |-> "InvalidElementStateException", raises |-> "InvalidElementStateException"],
      [catches |-> "ElementNotInteractableException", raises |-> "TypeError"]>>

\* lines 229-234: the except clauses of fill, in their order
fill_handlers ==
    <<[catches |-> "ElementNotInteractableException", raises |-> "TypeError"],
      [catches |-> "InvalidElementStateException", raises |-> "InvalidElementStateException"]>>

\* the exception that leaves a try statement with these except clauses when
\* its body raises thrown: the first clause that matches decides
RECURSIVE leaves_try(_, _, _)
leaves_try(handlers, thrown, i) ==
    IF i > Len(handlers) THEN thrown
    ELSE IF is_instance(thrown, handlers[i].catches) THEN handlers[i].raises
    ELSE leaves_try(handlers, thrown, i + 1)

\* what send_keys may raise
SendFailures ==
    {"", "ElementNotInteractableException", "InvalidElementStateException",
     "StaleElementReferenceException"}

\* lines 202-234: fill(element_or_selector, text_to_send).  ready says whether
\* the wait of line 220 returns the element, thrown what send_keys raises
fill ==
    /\ pc = "idle"
    /\ \E target \in {"selector", "element"}, ready \in BOOLEAN, thrown \in SendFailures :
        LET in_body == IF ready THEN thrown ELSE "TimeoutException" IN
        /\ target = "element" => ready
        /\ ~ready => thrown = ""
        /\ op' = [name |-> "fill", target |-> target, thrown |-> in_body,
                  send_keys |-> IF ready THEN 1 ELSE 0]
        /\ raised' = IF in_body = "" THEN "" ELSE leaves_try(fill_handlers, in_body, 1)
        /\ result' = IF in_body = "" THEN "None" ELSE "pending"
    /\ pre_timeout' = timeout
    /\ UNCHANGED <<timeout, wait, ctx, frames, captcha_state>>

InitOperations == Built(ScanPages)

NextOperations ==
    \/ switch_to_frame
    \/ call_find_iframe
    \/ call_get
    \/ click
    \/ fill
    \/ is_element_interactable
    \/ wait_until_element_has_gone

SpecOperations == InitOperations /\ [][NextOperations]_vars

---------------------------------------------------------------------------
(* The scanner on pages whose frames hold longer names *)

LongerNamePages ==
    UNION {[1..n -> {"plain", "challenge"} \cup TokenKinds] : n \in 0..MaxPageFrames}

InitScanner == Built(LongerNamePages)

NextScanner ==
    \/ switch_to_frame
    \/ call_find_iframe

SpecScanner == InitScanner /\ [][NextScanner]_vars

---------------------------------------------------------------------------
(* BrowserManager._get_selector_type *)

\* the characters the selector strings are made of
SelectorChars == {"/", ".", "a", " "}

SelectorStrings == UNION {[1..n -> SelectorChars] : n \in 0..MaxSelectorLen}

\* what \S does not match
Whitespace == {" ", "\t", "\n", "\r", "\f"}

\* lines 99-105: By.XPATH for a leading "//", By.CSS_SELECTOR for any other
\* string whose first character is no whitespace; no branch is taken
\* otherwise and the function returns None
get_selector_type(selector_string) ==
    IF Len(selector_string) >= 2 /\ selector_string[1] = "/" /\ selector_string[2] = "/"
    THEN "xpath"
    ELSE IF Len(selector_string) >= 1 /\ selector_string[1] \notin Whitespace
    THEN "css selector"
    ELSE "None"

call_get_selector_type ==
    /\ pc = "idle"
    /\ \E selector_string \in SelectorStrings :
        op' = [name |-> "_get_selector_type", selector_string |-> selector_string,
               returned |-> get_selector_type(selector_string)]
    /\ result' = "pending"
    /\ raised' = ""
    /\ pre_timeout' = timeout
    /\ UNCHANGED <<timeout, wait, ctx, frames, captcha_state>>

InitSelectors == Built({<<>>})

NextSelectors == call_get_selector_type

SpecSelectors == InitSelectors /\ [][NextSelectors]_vars

---------------------------------------------------------------------------
(* BrowserManager.timeout, assigned by the caller *)

StrValue(n) == [type |-> "str", v |-> n]

\* the values a caller assigns: numbers as int, as float and as text, and None
AssignedValues ==
    {IntValue(n) : n \in 0..MaxTimeoutValue}
        \cup {FloatValue(n) : n \in 0..MaxTimeoutValue}
        \cup {StrValue(n) : n \in 0..MaxTimeoutValue}
        \cup {NoneValue}

\* session.timeout = value
timeout_assignment ==
    /\ pc = "idle"
    /\ \E value \in AssignedValues :
        LET set == timeout_setter(value) IN
        /\ op' = [name |-> "timeout", value |-> value]
        /\ raised' = set.raised
        /\ timeout' = set.timeout
        /\ wait' = set.wait
    /\ result' = "pending"
    /\ pre_timeout' = timeout
    /\ UNCHANGED <<ctx, frames, captcha_state>>

InitTimeout == Built({<<>>})

NextTimeout == timeout_assignment

SpecTimeout == InitTimeout /\ [][NextTimeout]_vars

---------------------------------------------------------------------------
(* DictionaryManager: the queue of keywords *)

\* the alphabet the managers are built with: the head of the default one
alphabet == <<"a", "b">>

\* the characters a word is written with, in code-point order; "c" is in no alphabet
Characters == <<"a", "b", "c">>

ord(char) == CHOOSE i \in 1..Len(Characters) : Characters[i] = char

\* words given to init_from: strings, as tuples of characters
Words == UNION {[1..n -> {Characters[i] : i \in 1..Len(Characters)}] : n \in 0..MaxWordLen}

\* Python's u < v on strings
RECURSIVE less(_, _)
less(u, v) ==
    IF v = <<>> THEN FALSE
    ELSE IF u = <<>> THEN TRUE
    ELSE IF Head(u) = Head(v) THEN less(Tail(u), Tail(v))
    ELSE ord(Head(u)) < ord(Head(v))

less_or_equal(u, v) == u = v \/ less(u, v)

in_alphabet(char) == \E i \in 1..Len(alphabet) : alphabet[i] = char

RECURSIVE concatenated(_)
concatenated(lists) ==
    IF lists = <<>> THEN <<>> ELSE Head(lists) \o concatenated(Tail(lists))

\* line 30: [keyword + letter for letter in self._alphabet]
new_keywords(keyword) == [i \in 1..Len(alphabet) |-> keyword \o <<alphabet[i]>>]

\* line 19: itertools.product(self._alphabet, repeat=keyword_length), joined
RECURSIVE product(_)
product(repeat) ==
    IF repeat = 0 THEN << <<>> >>
    ELSE LET shorter == product(repeat - 1) IN
         concatenated([i \in 1..Len(shorter) |-> new_keywords(shorter[i])])

\* lines 30-32: the new keywords, inserted at the front one by one from the last
extended(queue, keyword) == new_keywords(keyword) \o queue

\* lines 67-84: the loop of init_from over the characters of the word that
\* are still to come; the list never runs empty under the checks of lines 55-58
RECURSIVE init_from_loop(_, _, _)
init_from_loop(aux_alphabet, prefix, word) ==
    IF word = <<>> THEN aux_alphabet
    ELSE LET char == Head(word)
             longer == prefix \o <<char>>
         IN
         IF Len(longer) > 1
         THEN LET letter_to_be_extended == Head(aux_alphabet)
                  at_or_after(keyword) == less_or_equal(longer, keyword)
              IN init_from_loop(SelectSeq(new_keywords(letter_to_be_extended), at_or_after)
                                    \o Tail(aux_alphabet),
                                longer, Tail(word))
         ELSE LET not_before(c) == less_or_equal(<<char>>, c)
              IN init_from_loop(SelectSeq(aux_alphabet, not_before), longer, Tail(word))

\* line 61: self._alphabet[:], each letter a string of one character
aux_alphabet_at_start == [i \in 1..Len(alphabet) |-> <<alphabet[i]>>]

\* lines 55-58: the exception init_from raises, "" when it goes on
init_from_raises(queue, word) ==
    IF \E i \in 1..Len(word) : ~in_alphabet(word[i]) THEN "ValueError"
    ELSE IF queue = <<>> THEN "IndexError"
    ELSE IF Len(word) < Len(queue[1]) \/ less(word, queue[1]) THEN "ValueError"
    ELSE ""

\* lines 5-20: a manager is built
DictionaryManager ==
    /\ pc = "idle"
    /\ keyword_length = 0
    /\ \E length \in 1..MaxKeywordLength :
        /\ keyword_length' = length
        /\ dictionary' = product(length)
        /\ op' = [name |-> "DictionaryManager", keyword_length |-> length]
    /\ current_keyword' = None
    /\ keywords_returned' = <<>>
    /\ raised' = ""
    /\ UNCHANGED <<pc, result, calls, frames, top, ctx, timeout, wait, files, locals,
                   before_first_call, checkbox_phase>>

\* lines 34-39
get_next_keyword ==
    /\ pc = "idle"
    /\ keyword_length > 0
    /\ Len(keywords_returned) < MaxReturned
    /\ IF dictionary # <<>>
       THEN /\ current_keyword' = Head(dictionary)
            /\ dictionary' = Tail(dictionary)
            /\ keywords_returned' = Append(keywords_returned, Head(dictionary))
            /\ op' = [name |-> "get_next_keyword", returned |-> Head(dictionary)]
       ELSE /\ op' = [name |-> "get_next_keyword", returned |-> None]
            /\ UNCHANGED <<current_keyword, dictionary, keywords_returned>>
    /\ raised' = ""
    /\ UNCHANGED <<pc, result, calls, frames, top, ctx, timeout, wait, files, locals,
                   before_first_call, checkbox_phase, keyword_length>>

\* lines 26-32
extend_current_keyword ==
    /\ pc = "idle"
    /\ keyword_length > 0
    /\ IF current_keyword = None
       THEN /\ raised' = "Exception"
            /\ UNCHANGED dictionary
       ELSE /\ Len(current_keyword) < MaxWordLen
            /\ Len(dictionary) + Len(alphabet) <= MaxDictionaryLen
            /\ raised' = ""
            /\ dictionary' = extended(dictionary, current_keyword)
    /\ op' = [name |-> "extend_current_keyword", keyword |-> current_keyword]
    /\ UNCHANGED <<pc, result, calls, frames, top, ctx, timeout, wait, files, locals,
                   before_first_call, checkbox_phase, keyword_length, current_keyword,
                   keywords_returned>>

\* lines 41-86, called to resume: on a manager that has handed out no keyword yet
init_from ==
    /\ pc = "idle"
    /\ keyword_length > 0
    /\ keywords_returned = <<>>
    /\ \E word \in Words :
        /\ op' = [name |-> "init_from", word |-> word]
        /\ raised' = init_from_raises(dictionary, word)
        /\ dictionary' = IF init_from_raises(dictionary, word) = ""
                         THEN init_from_loop(aux_alphabet_at_start, <<>>, word)
                         ELSE dictionary
    /\ UNCHANGED <<pc, result, calls, frames, top, ctx, timeout, wait, files, locals,
                   before_first_call, checkbox_phase, keyword_length, current_keyword,
                   keywords_returned>>

InitDictionary == Built({<<>>})

NextDictionary ==
    \/ DictionaryManager
    \/ get_next_keyword
    \/ extend_current_keyword

SpecDictionary == InitDictionary /\ [][NextDictionary]_vars

InitInitFrom == Built({<<>>})

NextInitFrom ==
    \/ DictionaryManager
    \/ get_next_keyword
    \/ init_from

SpecInitFrom == InitInitFrom /\ [][NextInitFrom]_vars
---------------------------------------------------------------------------
(* Properties of resolveCaptcha *)

\* the call ended by returning True or False
Returned == pc = "done" /\ raised = "" /\ result \in {"True", "False"}

\* no iframe of the page holds the audio-button marker or the anchor marker
NoChallengeFrame ==
    \A i \in 1..Len(frames) :
        ~has_a_match[{reCaptcha_audio_button_id_name,
                      reCaptcha_audio_button_alt_selector}][frames[i]]

\* the call ended in the head of an audio round whose scan returned None
EndedWithoutAudioFrame ==
    /\ pc = "done"
    /\ rounds >= 1
    /\ iframe_audio_link = 0
    /\ raised # "TypeError"

\* the document shows one ban notice whose text, letter case ignored, holds
\* "try again later" or "vuelve a intentarlo"
BanDetected ==
    /\ ElementCount(top, reCaptcha_modal_header_selector) = 1
    /\ \E phrase \in {banned_phrase_en, banned_phrase_es} :
           Contains(lower(ElementText(top)), phrase)

\* C1: a call with the supported variant that ended before any audio round, on
\* a page none of whose iframes holds the audio-button or the anchor marker,
\* returned True -- for any number of iframes.
C1_NoChallengeReturnsTrue ==
    (pc = "done" /\ result # "None" /\ rounds = 0 /\ NoChallengeFrame)
        => (raised = "" /\ result = "True")

\* C2: the audio loop never starts another round when the scan after the
\* answer found a frame whose audio url is the url of the round just answered.
C2_SameLocatorEndsLoop ==
    ~(/\ pc = "AudioRound"
      /\ rounds >= 1
      /\ iframe_audio # 0
      /\ captcha_audio_link_url # "none"
      /\ captcha_audio_link_url_of(iframe_audio) = captcha_audio_link_url)

\* C3: an audio round whose scan returned None and whose ban notice holds a
\* block phrase (in any letter case) ends the call with False, and the
\* pipeline did not run in that round.
C3_BannedReturnsFalse ==
    (EndedWithoutAudioFrame /\ BanDetected)
        => (raised = "" /\ result = "False" /\ transcriptions = 0)

C3_Witness ==
    /\ EndedWithoutAudioFrame
    /\ top = "ban_es"
    /\ BanDetected
    /\ result = "False"

\* C4 as claimed: an audio round whose scan returned None and that detected no
\* ban phrase ends the call with True.
C4_NoBanReturnsTrue ==
    (EndedWithoutAudioFrame /\ ~BanDetected) => (raised = "" /\ result = "True")

\* C4 as amended: an audio round whose scan returned None and that located no
\* ban notice at all ends the call with False; with no ban phrase detected the
\* call does not return True.
C4_NoBanNoticeReturnsFalse ==
    (EndedWithoutAudioFrame /\ ~BanDetected)
        => /\ result # "True"
           /\ ElementCount(top, reCaptcha_modal_header_selector) = 0
                => (raised = "" /\ result = "False")

C4_Witness ==
    /\ EndedWithoutAudioFrame
    /\ ElementCount(top, reCaptcha_modal_header_selector) = 0
    /\ result = "False"

\* C5: a call with the supported variant ends by returning True or False: no
\* exception leaves it.
C5_NoExceptionEscapes == (pc = "done" /\ result # "None") => Returned

\* C6: whenever the call returns True or False the current document context
\* is the top-level document.
C6_TopLevelAtReturn == Returned => ctx = 0

\* C7: whenever the call returns True or False the session timeout is the
\* one the session had when the call was made.
C7_TimeoutRestoredAtReturn == Returned => timeout = pre_timeout

C7_Witness ==
    /\ Returned
    /\ result = "False"
    /\ rounds >= 1
    /\ pre_timeout = default_timeout
    /\ timeout = default_timeout

\* C8: when an exception leaves the call the session timeout is the one the
\* session had when the call was made.
C8_TimeoutRestoredOnException == (pc = "done" /\ raised # "") => timeout = pre_timeout

\* C9: once the pipeline has returned the empty text, no key is sent to the
\* answer input, neither artifact of the run exists, and the call ends by
\* returning False.
C9_EmptyTextFails ==
    audio_text_recognized = ""
        => /\ pc \in {"SubmitAnswer", "done"}
           /\ typed = <<>>
           /\ files = {}
           /\ pc = "done" => (raised = "" /\ result = "False")

C9_Witness ==
    /\ pc = "done"
    /\ audio_text_recognized = ""
    /\ transcriptions = 1
    /\ result = "False"
    /\ files = {}

\* C10: the keys sent in a round are the transcribed text followed by the
\* submit key, and a call whose scan after the answer returned None returns
\* True.
C10_TextThenEnterThenTrue ==
    /\ typed # <<>> => (audio_text_recognized \in Texts
                        /\ typed = <<audio_text_recognized, ENTER>>)
    /\ pc = "Rescan" => typed # <<>>
    /\ (pc = "done" /\ typed # <<>> /\ iframe_audio = 0 /\ raised # "TypeError")
            => (raised = "" /\ result = "True")

C10_Witness ==
    /\ pc = "done"
    /\ reCaptcha_checkbox_triggered
    /\ typed = <<"banana apple", ENTER>>
    /\ iframe_audio = 0
    /\ result = "True"


---------------------------------------------------------------------------
(* Two calls, the pipeline's artifacts *)

\* the page shows no CAPTCHA at all: every iframe is an ordinary document
NoCaptchaPresent == \A i \in 1..Len(frames) : frames[i] = "plain"

\* C11: a second call, made after a call that returned True, on a session
\* whose page shows no challenge, returns True, and leaves the timeout and
\* the document context as they were before the first call.
C11_SecondCallReturnsTrue ==
    (calls = 2 /\ pc = "done" /\ result # "None" /\ NoCaptchaPresent)
        => /\ raised = ""
           /\ result = "True"
           /\ timeout = before_first_call.timeout
           /\ ctx = before_first_call.ctx

\* C12: once the pipeline has run, whether it returned or raised, neither
\* the download nor the transcoded file is left.
C12_ArtifactsRemovedOnEveryExit ==
    (transcriptions >= 1 /\ pc # "Transcribe") => files = {}

---------------------------------------------------------------------------
(* The frame scanner, called on a page *)

Scanned == op.name = "_find_iframe_with_contained_class"

\* the iframes the scan could switch into whose source holds a marker
MatchingFrames ==
    {i \in 1..Len(frames) : i \notin op.stale /\ has_a_match[op.class_names][frames[i]]}

MostRecentlyAttached(S) == CHOOSE i \in S : \A j \in S : j <= i

\* C13: on a page with several iframes the scanner returns the most recently
\* attached frame whose source holds a marker, passing over newer frames
\* without one; so the oldest frame is returned when it alone holds it.
C13_ReverseDiscoveryOrder ==
    (Scanned /\ Len(frames) >= 2 /\ MatchingFrames # {})
        => /\ raised = ""
           /\ op.frame = MostRecentlyAttached(MatchingFrames)

C13_Witness ==
    /\ Scanned
    /\ Len(frames) = 3
    /\ op.stale = {}
    /\ MatchingFrames = {1}
    /\ op.frame = 1

\* C14 as claimed: a scan that found a frame leaves the session inside it.
C14_InsideFrameAfterMatch ==
    (Scanned /\ raised = "" /\ op.frame # 0) => ctx = op.frame

\* C14: a scan that found a frame returns it with the session back at the
\* top-level document.
C14_TopLevelAfterMatch ==
    (Scanned /\ raised = "" /\ op.frame # 0) => ctx = 0

C14_Witness ==
    /\ Scanned
    /\ raised = ""
    /\ op.frame = 2
    /\ ctx = 0

\* C15: when no iframe holds a marker, whatever the number of iframes, the
\* scanner returns None and the session is at the top-level document.
C15_NoMatchReturnsNone ==
    (Scanned /\ \A i \in 1..Len(frames) : ~has_a_match[op.class_names][frames[i]])
        => /\ raised = ""
           /\ op.frame = 0
           /\ result = "None"
           /\ ctx = 0

---------------------------------------------------------------------------
(* Element-level operations *)

\* the ceiling the wait of the last operation ran under
TimeoutInForce == IF truthy(op.timeout) THEN op.timeout.v ELSE pre_timeout

\* C16: is_element_interactable leaves the timeout as it was before the call
\* on every exit; when it returns, it returns True exactly when the element
\* showed within the timeout in force and was displayed and enabled.
C16_InteractableAndTimeoutRestored ==
    op.name = "is_element_interactable"
        => /\ timeout = pre_timeout
           /\ wait = pre_timeout
           /\ raised = "" =>
                /\ result \in {"True", "False"}
                /\ result = "True" <=>
                      (op.shows_at <= TimeoutInForce /\ op.displayed /\ op.enabled)

C16_Witness ==
    /\ op.name = "is_element_interactable"
    /\ op.timeout = IntValue(5)
    /\ op.shows_at = 3
    /\ pre_timeout = captcha_timeout
    /\ timeout = captcha_timeout
    /\ result = "True"

\* C17: wait_until_element_has_gone leaves the timeout as it was before the
\* call on every exit: return, TimeoutException, any other failure.
C17_TimeoutRestoredOnEveryExit ==
    op.name = "wait_until_element_has_gone" => timeout = pre_timeout

\* C18: get returns the element when one node matches and no list was asked
\* for, and the sequence of all matching nodes in every other case.
C18_ElementOrFullSequence ==
    (op.name = "get" /\ raised = "")
        => IF op.total_matched = 1 /\ ~op.results_in_list
           THEN result = "WebElement"
           ELSE result = "list" /\ op.returned = op.total_matched

\* C19: click on an element ends with a script-level click, and without an
\* exception, both when the wait times out and when the click is intercepted.
C19_ElementClickFallsBack ==
    (op.name = "click" /\ op.target = "element" /\ op.thrown # "")
        => raised = "" /\ op.script_click

\* C20: click on a selector whose click is intercepted ends with a
\* script-level click on the element get resolves, for one or several
\* matching nodes.
C20_SelectorClickFallsBack ==
    (op.name = "click" /\ op.target = "selector"
        /\ op.thrown = "ElementClickInterceptedException")
        => raised = "" /\ op.script_click

\* C21: fill calls send_keys at most once; an element that cannot receive
\* input makes it fail with InvalidElementStateException, and an element that
\* is merely not interactable does not.
C21_FillFailsNotWritable ==
    op.name = "fill"
        => /\ op.send_keys <= 1
           /\ op.thrown = "" => raised = ""
           /\ op.thrown = "InvalidElementStateException"
                => raised = "InvalidElementStateException"
           /\ op.thrown = "ElementNotInteractableException"
                => (raised # "" /\ raised # "InvalidElementStateException")

C21_Witness ==
    /\ op.name = "fill"
    /\ op.send_keys = 1
    /\ op.thrown = "InvalidElementStateException"
    /\ raised = "InvalidElementStateException"

---------------------------------------------------------------------------
(* The variant argument, the order of the checkbox phase *)

\* the last call of resolveCaptcha has ended
CallEnded == op.name = "resolveCaptcha" /\ pc = "done"

\* C22: a call that returns, returns True or False, whatever the variant.
C22_ReturnsBoolean ==
    (CallEnded /\ raised = "") => result \in {"True", "False"}

\* C30: a call with a variant other than google-v2 leaves the timeout and the
\* document context as they were and scans, clicks and transcribes nothing.
C30_UnsupportedVariantChangesNothing ==
    (CallEnded /\ op.captcha_version # "google-v2")
        => /\ timeout = pre_timeout
           /\ wait = pre_timeout
           /\ ctx = before_first_call.ctx
           /\ checkbox_phase.steps = <<>>
           /\ rounds = 0
           /\ transcriptions = 0

\* C23: when the challenge scan is about to start, a checkbox frame that was
\* found has had its checkbox clicked and the settle delay has followed the
\* click; when none was found there was neither click nor delay.
C23_ClickThenSettleBeforeChallengeScan ==
    pc = "ChallengeSearch"
        => /\ checkbox_phase.found => checkbox_phase.steps = <<"click", "sleep">>
           /\ ~checkbox_phase.found => checkbox_phase.steps = <<>>

C23_Witness ==
    /\ pc = "ChallengeSearch"
    /\ checkbox_phase.found
    /\ checkbox_phase.steps = <<"click", "sleep">>
    /\ ctx # 0

---------------------------------------------------------------------------
(* The audio round *)

\* C24: a round that found the audio-link frame and switched into it, but
\* whose link is no single element or has no href, ends the call with False,
\* with no pipeline run and nothing typed.
C24_UnresolvableLocatorReturnsFalse ==
    (/\ pc = "done"
     /\ rounds >= 1
     /\ iframe_audio_link # 0
     /\ raised # "NoSuchFrameException"
     /\ captcha_audio_link_url_of(iframe_audio_link) = "none")
        => /\ raised = ""
           /\ result = "False"
           /\ transcriptions = 0
           /\ typed = <<>>

\* C25: the pipeline runs at most once in a round, and only on the url the
\* round read from its audio link; keys are sent to the answer input only
\* after the pipeline of the round returned a text that is not empty.
C25_PipelineOncePerRound ==
    /\ transcriptions <= 1
    /\ transcriptions = 1 => (rounds >= 1 /\ captcha_audio_link_url # "none")
    /\ typed # <<>> =>
          /\ transcriptions = 1
          /\ audio_text_recognized \notin {"", Unset}

C25_Witness ==
    /\ rounds = 2
    /\ transcriptions = 1
    /\ captcha_audio_link_url = "u2"
    /\ typed = <<"seven", ENTER>>

---------------------------------------------------------------------------
(* Stale frames, markers and tokens *)

\* C26: a frame the scanner cannot switch into is passed over; the scan goes
\* on with the older frames, returns a frame holding the marker when one of
\* those it could enter holds it, and ends at the top-level document.
C26_StaleFrameSkipped ==
    (Scanned /\ Len(frames) >= 2 /\ op.stale # {})
        => /\ raised = ""
           /\ ctx = 0
           /\ op.frame \notin op.stale
           /\ MatchingFrames # {} => op.frame \in MatchingFrames

C26_Witness ==
    /\ Scanned
    /\ Len(frames) = 3
    /\ op.stale = {3}
    /\ has_a_match[op.class_names][frames[3]]
    /\ op.frame = 1
    /\ ctx = 0

\* a frame with the anchor control (id recaptcha-anchor) and no audio button
AnchorControlOnly(kind) ==
    /\ ElementCount(kind, reCaptcha_audio_button_alt) >= 1
    /\ ElementCount(kind, reCaptcha_audio_button_selector) = 0

\* C27: a call does not return True through the "no challenge" branch of
\* lines 427-430 while a frame of the page holds the anchor control.
C27_AnchorFrameIsChallengeFrame ==
    (pc = "done" /\ raised = "" /\ result = "True" /\ rounds = 0)
        => \A i \in 1..Len(frames) : ~AnchorControlOnly(frames[i])

\* C28: a frame whose source holds the marker only as a part of a longer
\* class name or id is not reported as a match.
C28_WholeTokenOnly ==
    (Scanned /\ raised = "" /\ op.frame # 0) => frames[op.frame] \notin TokenKinds

---------------------------------------------------------------------------
(* Selector dialects *)

\* C29: every selector string gets a dialect: XPath when it starts with
\* "//", CSS when it starts with any other character that is no whitespace,
\* and never none.
C29_EverySelectorHasDialect ==
    op.name = "_get_selector_type"
        => LET s == op.selector_string
               slashes == Len(s) >= 2 /\ s[1] = "/" /\ s[2] = "/"
           IN
           /\ slashes => op.returned = "xpath"
           /\ (~slashes /\ Len(s) >= 1 /\ s[1] # " ") => op.returned = "css selector"
           /\ op.returned \in {"xpath", "css selector"}

---------------------------------------------------------------------------
(* No switch without a frame, the timeout property *)

\* C31: a round whose scan returned None ends by a return: neither the frame
\* switch of line 479 nor the lookup of line 480 is reached, whose failures
\* are the exceptions that can leave such a round.
C31_NoSwitchWithoutFrame ==
    EndedWithoutAudioFrame => raised = ""

\* C32: the ceiling of the wait object is the timeout, after construction and
\* after every assignment; an assignment of a value that is no int raises
\* ValueError and changes neither, an assignment of an int sets both.
C32_WaitFollowsTimeout ==
    /\ wait = timeout
    /\ op.name = "timeout" =>
          IF op.value.type = "int"
          THEN raised = "" /\ timeout = op.value.v
          ELSE raised = "ValueError" /\ timeout = pre_timeout

C32_Witness ==
    /\ op.name = "timeout"
    /\ op.value = FloatValue(5)
    /\ raised = "ValueError"
    /\ pre_timeout = 7
    /\ timeout = 7
    /\ wait = 7

\* u is a prefix of v and shorter than it
proper_prefix(u, v) == Len(u) < Len(v) /\ SubSeq(v, 1, Len(u)) = u

\* the queue the normal operations reach just before word is popped: every
\* keyword ahead of word is popped, and extended when word begins with it
RECURSIVE normal_operations(_, _)
normal_operations(queue, word) ==
    IF queue = <<>> \/ Head(queue) = word THEN queue
    ELSE IF proper_prefix(Head(queue), word)
         THEN normal_operations(extended(Tail(queue), Head(queue)), word)
         ELSE normal_operations(Tail(queue), word)

\* C33: after init_from(word) has accepted a word, the queue is the queue a
\* fresh manager of the same keyword_length reaches by get_next_keyword and
\* extend_current_keyword just before word is popped.
C33_InitFromRecreatesQueue ==
    (op.name = "init_from" /\ raised = "")
        => dictionary = normal_operations(product(keyword_length), op.word)

\* C34: get_next_keyword never returns the same keyword twice, whatever the
\* sequence of get_next_keyword and extend_current_keyword calls.
C34_NeverReturnedTwice ==
    \A i, j \in DOMAIN keywords_returned :
        i # j => keywords_returned[i] # keywords_returned[j]
====
